---------------------------- MODULE Spec2Model ----------------------------
(***************************************************************************)
(* LWNX master-side driver (src/src/lwnx.rs): CRC16, packet encoder,       *)
(* incremental response parser, and the retry/timeout command dispatcher   *)
(* running over a byte-stream transport.                                   *)
(*                                                                         *)
(* Two specifications share the variables:                                 *)
(*   SpecParser  encodes one packet and feeds a byte stream built from it  *)
(*               (noise in front, or one bit flipped) to Response.         *)
(*   Spec        one API call (engage_lwnx_mode, handle_managed_cmd,       *)
(*               cmd_read_u32) against a transport that delivers a byte    *)
(*               stream, may time out, fail, or write short.               *)
(***************************************************************************)
EXTENDS Integers, Sequences, FiniteSets, TLC

VARIABLES
    op,               \* the API function being run
    command_id,       \* u8 argument
    write,            \* bool argument
    write_data,       \* &[u8] argument
    command_retries,  \* DeviceContext.command_retries
    command_timeout,  \* DeviceContext.command_timeout (ms)
    packet_bytes,     \* result of create_packet_bytes, <<>> before it ran
    scen,             \* what the transport / the feeder was set up with
    wire,             \* bytes the peer puts on the line, in order
    pos,              \* how many of them have been consumed
    resp,             \* the Response: data, size, payload_size, parse_state
    ret,              \* what the last parse_data call returned
    completions,      \* how many parse_data calls returned true so far
    panicked,         \* a Rust panic: an index out of bounds, an unwrap of Err
    pc,               \* position in the running function
    attempt,          \* loop variable of handle_managed_cmd
    elapsed,          \* instant_time.elapsed() in ms, as last observed
    timeout_time,     \* recv_packet's deadline
    result,           \* what the API call returned
    value,            \* the decoded value of a typed read
    hist              \* history of the transport calls made

vars == << op, command_id, write, write_data, command_retries, command_timeout,
           packet_bytes, scen, wire, pos, resp, ret, completions, panicked,
           pc, attempt, elapsed, timeout_time, result, value, hist >>

-----------------------------------------------------------------------------
(* Program constants *)

StartMarker == 170
BufferSize == 1024
MaxPayloadSize == 1019

(* Bounds of the model *)

MaxDataLen == 2
MaxNoise == 2
MaxRetries == 2
MaxTimeout == 2
MaxSkew == 1
MaxResets == 1

-----------------------------------------------------------------------------
(* Fixed-width integer helpers *)

U8 == 2^8
U16 == 2^16

RECURSIVE BitXor(_, _)
BitXor(a, b) ==
    IF a = 0 THEN b
    ELSE IF b = 0 THEN a
    ELSE 2 * BitXor(a \div 2, b \div 2) + ((a + b) % 2)

RECURSIVE BitOr(_, _)
BitOr(a, b) ==
    IF a = 0 THEN b
    ELSE IF b = 0 THEN a
    ELSE 2 * BitOr(a \div 2, b \div 2) + (IF a % 2 = 1 \/ b % 2 = 1 THEN 1 ELSE 0)

Shl16(x, n) == (x * 2^n) % U16
Shr(x, n) == x \div 2^n

\* u16::to_le_bytes
ToLeBytes16(x) == << x % U8, x \div U8 >>

-----------------------------------------------------------------------------
(* create_crc *)

\* One iteration of the loop body: the new crc for input byte b.
CrcStepShift4(crc, b) ==
    LET code1 == BitXor(Shr(crc, 8), b)
        code2 == BitXor(code1, Shr(code1, 4))
        crc1  == BitXor(Shl16(crc, 8), code2)
        code3 == Shl16(code2, 4)
        crc2  == BitXor(crc1, code3)
        code4 == Shl16(code3, 7)
    IN  BitXor(crc2, code4)

CrcStep(crc, b) ==
    LET code1 == BitXor(Shr(crc, 8), b)
        code2 == BitXor(code1, Shr(code1, 4))
        crc1  == BitXor(Shl16(crc, 8), code2)
        code3 == Shl16(code2, 5)
        crc2  == BitXor(crc1, code3)
        code4 == Shl16(code3, 7)
    IN  BitXor(crc2, code4)

\* The loop over data[lo..hi] (1-based), starting from crc. The bytes are
\* folded strictly left to right; the range is halved only to keep the
\* evaluation depth logarithmic.
RECURSIVE CrcFold(_, _, _, _)
CrcFold(d, lo, hi, crc) ==
    IF lo > hi THEN crc
    ELSE IF lo = hi THEN CrcStep(crc, d[lo])
    ELSE LET mid  == (lo + hi) \div 2
             left == CrcFold(d, lo, mid, crc)
         IN  IF left \in 0..(U16 - 1) THEN CrcFold(d, mid + 1, hi, left) ELSE left

create_crc(d) == CrcFold(d, 1, Len(d), 0)

-----------------------------------------------------------------------------
(* create_packet_bytes *)

\* payload_length = 1 + data_size; flags = (payload_length << 6 | write) as u16
PacketFlagsNoCmdByte(data_size, w) ==
    BitOr((data_size * 64) % U16, IF w THEN 1 ELSE 0)

PacketFlags(data_size, w) ==
    LET payload_length == 1 + data_size
    IN  BitOr((payload_length * 64) % U16, IF w THEN 1 ELSE 0)

\* The returned slice buffer[0 .. 6 + data_size).
create_packet_bytes(cmd, w, d) ==
    LET head == << StartMarker >> \o ToLeBytes16(PacketFlags(Len(d), w)) \o << cmd >> \o d
    IN  head \o ToLeBytes16(create_crc(head))

-----------------------------------------------------------------------------
(* Response *)

\* The 1024-byte array `data` is kept as the prefix that has been stored to;
\* every byte beyond it still holds the 0 it was initialised with.
BufGet(buf, i) == IF i < Len(buf) THEN buf[i + 1] ELSE 0

BufSet(buf, i, b) ==
    IF i < Len(buf) THEN [buf EXCEPT ![i + 1] = b]
    ELSE buf \o [k \in 1..(i - Len(buf)) |-> 0] \o << b >>

\* data[lo .. hi) as a sequence
BufSlice(buf, lo, hi) == [k \in 1..(hi - lo) |-> BufGet(buf, lo + k - 1)]

\* Response::new
NewResponse ==
    [data |-> << >>, size |-> 0, payload_size |-> 0, parse_state |-> "StartByte"]

\* Response::reset: the buffer keeps its bytes
reset_nothing(r) == r

reset(r) ==
    [r EXCEPT !.size = 0, !.payload_size = 0, !.parse_state = "StartByte"]

get_command(r) == BufGet(r.data, 3)

\* (data[1] | data[2] << 8) >> 6
DecodeLength(lo, hi) == Shr(BitOr(lo, hi * U8), 6)

\* `if self.payload_size > 1019`
LengthGuardLoose(ps) == ps > MaxPayloadSize + 1

LengthGuard(ps) == ps > MaxPayloadSize

\* The trailing two bytes, little-endian, against create_crc of the rest.
CrcMatchesAlways(buf, sz) == TRUE

CrcMatchesBigEndian(buf, sz) ==
    LET crc        == BitOr(BufGet(buf, sz - 1), BufGet(buf, sz - 2) * U8)
        verify_crc == create_crc(BufSlice(buf, 0, sz - 2))
    IN  crc = verify_crc

CrcMatches(buf, sz) ==
    LET crc        == BitOr(BufGet(buf, sz - 2), BufGet(buf, sz - 1) * U8)
        verify_crc == create_crc(BufSlice(buf, 0, sz - 2))
    IN  crc = verify_crc

\* parse_data(self, b): the Response afterwards, the returned bool, and
\* whether the store panicked on an index outside the buffer.
StartByteArmAny(r, b) ==
    [resp |-> [r EXCEPT !.parse_state = "PayloadSize0",
                        !.data = BufSet(r.data, 0, b)],
     ret |-> FALSE, panic |-> FALSE]

StartByteArm(r, b) ==
    IF b = StartMarker
    THEN [resp |-> [r EXCEPT !.parse_state = "PayloadSize0",
                             !.data = BufSet(r.data, 0, b)],
          ret |-> FALSE, panic |-> FALSE]
    ELSE [resp |-> r, ret |-> FALSE, panic |-> FALSE]

PayloadSize0Arm(r, b) ==
    [resp |-> [r EXCEPT !.parse_state = "PayloadSize1",
                        !.data = BufSet(r.data, 1, b)],
     ret |-> FALSE, panic |-> FALSE]

PayloadSize1Arm(r, b) ==
    LET d  == BufSet(r.data, 2, b)
        ps == DecodeLength(BufGet(d, 1), BufGet(d, 2)) + 2
    IN  [resp |-> [data |-> d, size |-> 3, payload_size |-> ps,
                   parse_state |-> IF LengthGuard(ps) THEN "StartByte" ELSE "Payload"],
         ret |-> FALSE, panic |-> FALSE]

\* the Payload arm: store, count, and on the last byte check the checksum
PayloadArmStuck(r, b) ==
    IF r.size >= BufferSize
    THEN [resp |-> r, ret |-> FALSE, panic |-> TRUE]
    ELSE LET d  == BufSet(r.data, r.size, b)
             sz == r.size + 1
             ps == r.payload_size - 1
             ok == ps = 0 /\ CrcMatches(d, sz)
         IN  [resp |-> [data |-> d, size |-> sz, payload_size |-> ps,
                        parse_state |-> IF ok THEN "StartByte" ELSE "Payload"],
              ret |-> ok, panic |-> FALSE]

PayloadArm(r, b) ==
    IF r.size >= BufferSize
    THEN [resp |-> r, ret |-> FALSE, panic |-> TRUE]
    ELSE LET d  == BufSet(r.data, r.size, b)
             sz == r.size + 1
             ps == r.payload_size - 1
         IN  IF ps = 0
             THEN [resp |-> [data |-> d, size |-> sz, payload_size |-> ps,
                             parse_state |-> "StartByte"],
                   ret |-> CrcMatches(d, sz), panic |-> FALSE]
             ELSE [resp |-> [data |-> d, size |-> sz, payload_size |-> ps,
                             parse_state |-> "Payload"],
                   ret |-> FALSE, panic |-> FALSE]

parse_data(r, b) ==
    CASE r.parse_state = "StartByte"    -> StartByteArm(r, b)
      [] r.parse_state = "PayloadSize0" -> PayloadSize0Arm(r, b)
      [] r.parse_state = "PayloadSize1" -> PayloadSize1Arm(r, b)
      [] r.parse_state = "Payload"      -> PayloadArm(r, b)

-----------------------------------------------------------------------------
(* SpecParser: one encoded packet, fed byte by byte to a reset Response *)

SeqsUpTo(S, n) == UNION { [1..k -> S] : k \in 0..n }

\* x with bit k (0 = least significant) inverted
FlipBitOfByte(x, k) == IF (x \div 2^k) % 2 = 1 THEN x - 2^k ELSE x + 2^k

\* the frame with bit number k inverted (bit k lives in byte k \div 8)
FlipBit(frame, k) ==
    [frame EXCEPT ![k \div 8 + 1] = FlipBitOfByte(frame[k \div 8 + 1], k % 8)]

ParserCmdIds == {0, 1, StartMarker, U8 - 1}
ParserPayloadBytes == {1, StartMarker}
NoiseBytes == {0, 64, StartMarker}

\* a payload that is itself a complete valid frame
EmbeddedFrame == create_packet_bytes(1, FALSE, << >>)

SmallPayloads == SeqsUpTo(ParserPayloadBytes, MaxDataLen) \cup {EmbeddedFrame}

\* data lengths around the parser's length guard and the encoder's buffer end
LargeLens == {MaxPayloadSize - 3, MaxPayloadSize - 2, BufferSize - 6}
LargePayloads == { [i \in 1..n |-> 1 + (i % 100)] : n \in LargeLens }

\* a Response used before (its buffer keeps the old bytes) and reset
StaleResponse == reset([NewResponse EXCEPT !.data = [i \in 1..12 |-> U8 - 1], !.size = 12])

\* flag bytes (low, high) a peer may send after a start marker: length fields
\* 1017 (remaining count 1019, accepted), 1018 and 1023 (over the guard)
CraftedHeaders == { << 64, 254 >>, << 128, 254 >>, << 255, 255 >> }

\* low flag bytes of a header whose length field (bits 6..15) is 0; with 13
\* the low checksum byte of the header is 1
ShortFlags == {0, 13}

\* what a peer sends for a length field of 0: start marker, two flag bytes,
\* and the checksum of these three bytes
ShortFrame(f) ==
    LET head == << StartMarker, f, 0 >>
    IN  head \o ToLeBytes16(create_crc(head))

\* What the feeder sends: the packet after some noise bytes, the packet with
\* one bit inverted, the packet after a start marker and two flag bytes, or
\* the packet after a frame whose length field is 0.
ParserScenarios(d) ==
    IF d \in LargePayloads
    THEN { [kind |-> "noise", noise |-> << >>, flip |-> -1] }
    ELSE { [kind |-> "noise", noise |-> n, flip |-> -1] : n \in SeqsUpTo(NoiseBytes, MaxNoise) }
         \cup { [kind |-> "flip", noise |-> << >>, flip |-> k] : k \in 0..(8 * (6 + Len(d)) - 1) }
         \cup { [kind |-> "crafted", noise |-> << StartMarker >> \o h, flip |-> -1] : h \in CraftedHeaders }
         \cup { [kind |-> "short", noise |-> ShortFrame(f), flip |-> -1] : f \in ShortFlags }

ParserFrames ==
    (ParserCmdIds \X BOOLEAN \X SmallPayloads) \cup ({1} \X BOOLEAN \X LargePayloads)

PInit ==
    /\ op = "parse"
    /\ \E f \in ParserFrames :
           /\ command_id = f[1]
           /\ write = f[2]
           /\ write_data = f[3]
    /\ scen \in ParserScenarios(write_data)
    /\ resp \in (IF scen.kind = "flip" THEN {NewResponse} ELSE {NewResponse, StaleResponse})
    /\ command_retries = 0
    /\ command_timeout = 0
    /\ packet_bytes = << >>
    /\ wire = << >>
    /\ pos = 0
    /\ ret = FALSE
    /\ completions = 0
    /\ panicked = FALSE
    /\ pc = "encode"
    /\ attempt = 0
    /\ elapsed = 0
    /\ timeout_time = 0
    /\ result = "none"
    /\ value = -1
    /\ hist = << >>

\* create_packet_bytes(&mut buffer, command_id, write, data); the peer sends
\* the packet after the scenario's noise, or with the scenario's bit flipped
PEncode ==
    /\ pc = "encode"
    /\ LET p == create_packet_bytes(command_id, write, write_data)
       IN  /\ packet_bytes' = p
           /\ wire' = scen.noise \o (IF scen.flip >= 0 THEN FlipBit(p, scen.flip) ELSE p)
    /\ pc' = "feed"
    /\ UNCHANGED << op, command_id, write, write_data, command_retries, command_timeout,
                    scen, pos, resp, ret, completions, panicked,
                    attempt, elapsed, timeout_time, result, value, hist >>

\* response.parse_data(wire[pos])
PFeed ==
    /\ pc = "feed"
    /\ pos < Len(wire)
    /\ ~panicked
    /\ LET out == parse_data(resp, wire[pos + 1])
       IN  /\ resp' = out.resp
           /\ ret' = out.ret
           /\ panicked' = out.panic
           /\ completions' = completions + (IF out.ret THEN 1 ELSE 0)
    /\ pos' = pos + 1
    /\ UNCHANGED << op, command_id, write, write_data, command_retries, command_timeout,
                    packet_bytes, scen, wire, pc,
                    attempt, elapsed, timeout_time, result, value, hist >>

\* response.reset() by the owner of the Response, between two bytes
PReset ==
    /\ pc = "feed"
    /\ scen.kind \in {"crafted", "short"}
    /\ attempt < MaxResets
    /\ pos < Len(wire)
    /\ ~panicked
    /\ resp' = reset(resp)
    /\ ret' = FALSE
    /\ attempt' = attempt + 1
    /\ UNCHANGED << op, command_id, write, write_data, command_retries, command_timeout,
                    packet_bytes, scen, wire, pos, completions, panicked, pc,
                    elapsed, timeout_time, result, value, hist >>

PNext == PEncode \/ PFeed \/ PReset

SpecParser == PInit /\ [][PNext]_vars

-----------------------------------------------------------------------------
(* Spec: one API call on a DeviceContext over a transport *)

\* Frames the device may put on the line: for the requested id with a
\* four-byte value, for the requested id with no data, for another id, and
\* one whose checksum is wrong.
ReqId == 1
OtherId == 2

Match4 == [cmd |-> ReqId,   data |-> << 11, 12, 13, 14 >>, good |-> TRUE]
Match0 == [cmd |-> ReqId,   data |-> << >>,                good |-> TRUE]
Other4 == [cmd |-> OtherId, data |-> << 21, 22, 23, 24 >>, good |-> TRUE]
BadCrc == [cmd |-> ReqId,   data |-> << 31, 32, 33, 34 >>, good |-> FALSE]

\* replies to a string read: "Hi" and its terminator; a byte that is not
\* UTF-8 and a terminator; sixteen letters and no terminator
MatchStr  == [cmd |-> ReqId, data |-> << 72, 105, 0 >>, good |-> TRUE]
MatchBad  == [cmd |-> ReqId, data |-> << U8 - 1, 0 >>,  good |-> TRUE]
MatchFull == [cmd |-> ReqId, data |-> [i \in 1..16 |-> 64 + i], good |-> TRUE]

\* the wire bytes of a device frame; a bad one has its last checksum byte off
FrameBytes(f) ==
    LET p == create_packet_bytes(f.cmd, FALSE, f.data)
    IN  IF f.good THEN p ELSE [p EXCEPT ![Len(p)] = (p[Len(p)] + 1) % U8]

RECURSIVE Flatten(_)
Flatten(fs) == IF fs = << >> THEN << >> ELSE FrameBytes(Head(fs)) \o Flatten(Tail(fs))

\* what the device sends during the call: nothing, one frame, or two
DeviceSends ==
    { << >>, << Match4 >>, << Match0 >>, << Other4 >>, << BadCrc >>,
      << Other4, Match4 >>, << Other4, Match0 >>, << BadCrc, Match4 >>,
      << MatchStr >>, << MatchBad >>, << MatchFull >> }

DispatcherScenarios == { [kind |-> "device", frames |-> fs] : fs \in DeviceSends }

\* the calls the model makes: (op, command_id, write, write_data)
ApiCalls ==
    { << "engage_lwnx_mode", 0, FALSE, << >> >>,
      << "cmd_read_u32", ReqId, FALSE, << >> >>,
      << "cmd_read_string", ReqId, FALSE, << >> >>,
      << "handle_managed_cmd", ReqId, TRUE, << 5 >> >> }

InitHist ==
    [ nwrites     |-> 0,        \* transport writes made
      written     |-> {},       \* the buffers they were given
      failed      |-> "none",   \* the transport call that returned Err
      after_fail  |-> 0,        \* transport calls made after that
      last_call   |-> "none",   \* the most recent transport call: "write",
                                \* "short_write" (Ok with fewer bytes), "read"
      matched     |-> 0,        \* completions whose command id was the requested one
      after_match |-> 0,        \* transport calls made after such a completion
      stale       |-> 0 ]       \* bytes of the frame being parsed that were
                                \* stored before the current poll began

Init ==
    /\ \E c \in ApiCalls :
           /\ op = c[1]
           /\ command_id = c[2]
           /\ write = c[3]
           /\ write_data = c[4]
    /\ command_retries \in -1..MaxRetries
    /\ command_timeout \in 0..MaxTimeout
    /\ scen \in DispatcherScenarios
    /\ wire = Flatten(scen.frames)
    \* the typed reads make their own Response::new(); handle_managed_cmd is
    \* handed the caller's, which may have been used before
    /\ resp \in (IF op = "handle_managed_cmd" /\ write THEN {NewResponse, StaleResponse}
                 ELSE {NewResponse})
    /\ packet_bytes = << >>
    /\ pos = 0
    /\ ret = FALSE
    /\ completions = 0
    /\ panicked = FALSE
    /\ pc = "call"
    /\ attempt = 0
    /\ elapsed = 0
    /\ timeout_time = 0
    /\ result = "none"
    /\ value = -1
    /\ hist = InitHist

\* entry of engage_lwnx_mode / handle_managed_cmd: create_packet_bytes
Call ==
    /\ pc = "call"
    /\ packet_bytes' = create_packet_bytes(command_id, write, write_data)
    /\ pc' = IF op = "engage_lwnx_mode" THEN "write" ELSE "loop"
    /\ UNCHANGED << op, command_id, write, write_data, command_retries, command_timeout,
                    scen, wire, pos, resp, ret, completions, panicked,
                    attempt, elapsed, timeout_time, result, value, hist >>

\* `for _ in 0..device_context.command_retries`
RetriesLeftOneMore(i, n) == i <= n

RetriesLeft(i, n) == i < n

LoopHead ==
    /\ pc = "loop"
    /\ IF RetriesLeft(attempt, command_retries)
       THEN /\ pc' = "write"
            /\ result' = result
       ELSE /\ pc' = "done"
            /\ result' = "CommandRetriesExhausted"
    /\ UNCHANGED << op, command_id, write, write_data, command_retries, command_timeout,
                    packet_bytes, scen, wire, pos, resp, ret, completions, panicked,
                    attempt, elapsed, timeout_time, value, hist >>

\* the LwnxError values a platform callback may hand back (the reference
\* platforms give DeviceError)
CallbackErrors == {"DeviceError", "DeviceClosed", "PacketTimeout"}

\* what write_callback may return for a buffer of n bytes: Ok(n), Ok(fewer), Err
WriteOutcomes(n) ==
    { [ok |-> TRUE, count |-> n, err |-> "none"], [ok |-> TRUE, count |-> n - 1, err |-> "none"] }
        \cup { [ok |-> FALSE, count |-> 0, err |-> e] : e \in CallbackErrors }

\* cmd_write: Ok(s) for any Ok(s) of the callback, Err(WriteError) otherwise
cmd_write_swallowing(w, n) == "Ok"

cmd_write(w, n) == IF w.ok THEN "Ok" ELSE "WriteError"

NoteCall(h, kind) ==
    [h EXCEPT !.last_call = kind,
              !.after_fail = @ + (IF h.failed # "none" THEN 1 ELSE 0),
              !.after_match = @ + (IF h.matched > 0 THEN 1 ELSE 0)]

\* engage_lwnx_mode returns what cmd_write gave it; handle_managed_cmd goes
\* on to recv_packet
ReturnsAfterWriteNever(o) == FALSE

ReturnsAfterWrite(o) == o = "engage_lwnx_mode"

\* `cmd_write(device_context, packet_bytes)` in engage_lwnx_mode and, with `?`,
\* in handle_managed_cmd
CmdWrite ==
    /\ pc = "write"
    /\ \E w \in WriteOutcomes(Len(packet_bytes)) :
         LET r == cmd_write(w, Len(packet_bytes))
             short == w.ok /\ w.count < Len(packet_bytes)
             h == [NoteCall(hist, IF short THEN "short_write" ELSE "write") EXCEPT
                       !.nwrites = @ + 1,
                       !.written = @ \cup {packet_bytes},
                       !.failed = IF w.ok THEN @ ELSE "write"]
         IN  /\ hist' = h
             /\ IF r = "WriteError"
                THEN pc' = "done" /\ result' = "WriteError"
                ELSE IF ReturnsAfterWrite(op)
                THEN pc' = "done" /\ result' = "Ok"
                ELSE pc' = "recv" /\ result' = result
    /\ UNCHANGED << op, command_id, write, write_data, command_retries, command_timeout,
                    packet_bytes, scen, wire, pos, resp, ret, completions, panicked,
                    attempt, elapsed, timeout_time, value >>

\* how many bytes of a frame in progress the Response holds
StoredCount(r) ==
    CASE r.parse_state = "StartByte"    -> 0
      [] r.parse_state = "PayloadSize0" -> 1
      [] r.parse_state = "PayloadSize1" -> 2
      [] r.parse_state = "Payload"      -> r.size

\* recv_packet up to its loop: response.reset(), instant_time, timeout_time.
\* The elapsed() read right after Instant::now() is 0 ms, or more when the
\* thread was held up between the two.
RecvStart ==
    /\ pc = "recv"
    /\ resp' = reset(resp)
    /\ ret' = FALSE
    /\ hist' = [hist EXCEPT !.stale = StoredCount(reset(resp))]
    /\ \E e0 \in 0..MaxSkew :
           /\ elapsed' = e0
           /\ timeout_time' = e0 + command_timeout
    /\ pc' = "poll"
    /\ UNCHANGED << op, command_id, write, write_data, command_retries, command_timeout,
                    packet_bytes, scen, wire, pos, completions, panicked,
                    attempt, result, value >>

\* `while elapsed() < timeout_time`
BeforeDeadlineNever(e, t) == FALSE

BeforeDeadlineInclusive(e, t) == e <= t

BeforeDeadline(e, t) == e < t

\* the loop test of recv_packet; when it fails recv_packet returns
\* Err(PacketTimeout) and handle_managed_cmd `continue`s
PollCheck ==
    /\ pc = "poll"
    /\ IF BeforeDeadline(elapsed, timeout_time)
       THEN /\ pc' = "read"
            /\ attempt' = attempt
       ELSE /\ pc' = "loop"
            /\ attempt' = attempt + 1
    /\ UNCHANGED << op, command_id, write, write_data, command_retries, command_timeout,
                    packet_bytes, scen, wire, pos, resp, ret, completions, panicked,
                    elapsed, timeout_time, result, value, hist >>

\* `response.get_command() == command_id`
CommandMatchesAny(r, id) == TRUE

CommandMatches(r, id) == get_command(r) = id

\* u32::from_le_bytes(response.data[4..8])
get_uint32_data(r) ==
    BufGet(r.data, 4) + BufGet(r.data, 5) * 2^8 + BufGet(r.data, 6) * 2^16
        + BufGet(r.data, 7) * 2^24

\* cmd_read_string: the index of the first zero byte of data[4..20], 0 when
\* there is none
str_len(r) ==
    LET zeros == { i \in 0..15 : BufGet(r.data, 4 + i) = 0 }
    IN  IF zeros = {} THEN 0 ELSE CHOOSE i \in zeros : \A j \in zeros : i <= j

\* &response.data[4..4 + str_len]
StringBytes(r) == BufSlice(r.data, 4, 4 + str_len(r))

\* std::str::from_utf8(s).is_ok() for the bytes of s from index i on
RECURSIVE Utf8From(_, _)
Utf8From(s, i) ==
    IF i > Len(s) THEN TRUE
    ELSE LET b == s[i]
             In(k, lo, hi) == k <= Len(s) /\ s[k] >= lo /\ s[k] <= hi
             Cont(k) == In(k, 128, 191)
         IN  CASE b < 128                -> Utf8From(s, i + 1)
               [] b >= 194 /\ b <= 223   -> Cont(i + 1) /\ Utf8From(s, i + 2)
               [] b = 224                -> In(i + 1, 160, 191) /\ Cont(i + 2) /\ Utf8From(s, i + 3)
               [] b = 237                -> In(i + 1, 128, 159) /\ Cont(i + 2) /\ Utf8From(s, i + 3)
               [] b >= 225 /\ b <= 239 /\ b # 237
                                         -> Cont(i + 1) /\ Cont(i + 2) /\ Utf8From(s, i + 3)
               [] b = 240                -> In(i + 1, 144, 191) /\ Cont(i + 2) /\ Cont(i + 3)
                                                /\ Utf8From(s, i + 4)
               [] b >= 241 /\ b <= 243   -> Cont(i + 1) /\ Cont(i + 2) /\ Cont(i + 3)
                                                /\ Utf8From(s, i + 4)
               [] b = 244                -> In(i + 1, 128, 143) /\ Cont(i + 2) /\ Cont(i + 3)
                                                /\ Utf8From(s, i + 4)
               [] OTHER                  -> FALSE

\* `.unwrap()` on the from_utf8 result panics when the bytes are not UTF-8
DecodePanics(r) == op = "cmd_read_string" /\ ~Utf8From(StringBytes(r), 1)

\* what the API function returns as its value once handle_managed_cmd is Ok;
\* a String is kept as its bytes
Decode(r) ==
    IF op = "cmd_read_u32" THEN get_uint32_data(r)
    ELSE IF op = "cmd_read_string" THEN StringBytes(r)
    ELSE -1

\* cmd_read: Ok(s) for Ok(s) of the callback, Err(ReadError) for any Err
cmd_read_passing(cb) == IF cb.ok THEN "Ok" ELSE cb.err

cmd_read(cb) == IF cb.ok THEN "Ok" ELSE "ReadError"

\* the match of handle_managed_cmd on an Err of recv_packet
RecvErrArm(e) == IF e = "PacketTimeout" THEN "continue" ELSE "return"

\* one pass of the loop body of recv_packet: cmd_read of one byte, with `?`;
\* on Ok the typed read decodes its value from the Response.
\* Time passes inside the transport call: a read that delivers nothing has
\* waited out the transport's own timeout (at least 1 ms); a read that
\* delivers a byte may or may not have taken a millisecond.
CmdRead ==
    /\ pc = "read"
    /\ \/ \* read_callback returned Err: cmd_read gives Err(ReadError), which
          \* recv_packet returns with `?` and handle_managed_cmd matches on
          /\ \E e \in CallbackErrors :
               LET r == cmd_read([ok |-> FALSE, err |-> e])
               IN  IF RecvErrArm(r) = "continue"
                   THEN pc' = "loop" /\ attempt' = attempt + 1 /\ result' = result
                   ELSE pc' = "done" /\ attempt' = attempt /\ result' = r
          /\ hist' = [NoteCall(hist, "read") EXCEPT !.failed = "read"]
          /\ UNCHANGED << pos, resp, ret, completions, panicked, elapsed, value >>
       \/ \* Ok with no byte
          /\ hist' = NoteCall(hist, "read")
          /\ elapsed' = elapsed + 1
          /\ pc' = "poll"
          /\ UNCHANGED << pos, resp, ret, completions, panicked, result, value, attempt >>
       \/ \* Ok with the next byte of the line: parse_data, get_command
          /\ pos < Len(wire)
          /\ \E tick \in 0..1 : elapsed' = elapsed + tick
          /\ LET out == parse_data(resp, wire[pos + 1])
                 hit == out.ret /\ CommandMatches(out.resp, command_id)
                 oops == hit /\ DecodePanics(out.resp)
             IN  /\ resp' = out.resp
                 /\ ret' = out.ret
                 /\ panicked' = (out.panic \/ oops)
                 /\ completions' = completions + (IF out.ret THEN 1 ELSE 0)
                 /\ hist' = [NoteCall(hist, "read") EXCEPT
                                 !.matched = @ + (IF hit THEN 1 ELSE 0),
                                 !.stale = IF resp.parse_state = "StartByte" THEN 0 ELSE @]
                 /\ IF out.panic \/ oops
                    THEN pc' = "done" /\ result' = "panic" /\ value' = value
                    ELSE IF hit
                    THEN pc' = "done" /\ result' = "Ok" /\ value' = Decode(out.resp)
                    ELSE pc' = "poll" /\ result' = result /\ value' = value
          /\ pos' = pos + 1
          /\ attempt' = attempt
    /\ UNCHANGED << op, command_id, write, write_data, command_retries, command_timeout,
                    packet_bytes, scen, wire, timeout_time >>

Next == Call \/ LoopHead \/ CmdWrite \/ RecvStart \/ PollCheck \/ CmdRead

Spec == Init /\ [][Next]_vars

\* The caller is one sequential thread: every transport call returns and the
\* function then takes its next step. Weak fairness of Call is written with
\* its enabling condition (pc = "call") spelled out.
SpecLive ==
    /\ Init
    /\ [][Next]_vars
    /\ WF_vars(LoopHead \/ CmdWrite \/ RecvStart \/ PollCheck \/ CmdRead)
    /\ ([]<>(pc # "call") \/ []<><<Call>>_vars)

-----------------------------------------------------------------------------
(* Claims about the encoder and the parser, checked under SpecParser *)

Range(q) == { q[i] : i \in 1..Len(q) }

\* the packet is being fed unaltered, with nothing in front of it
FedAlone == op = "parse" /\ pc = "feed" /\ scen.kind = "noise" /\ scen.noise = << >>

\* parse_data has returned false on every byte so far
NoCompletionYet == ~ret /\ completions = 0

\* parse_data returned true on the last byte fed, and on no byte before it
CompletedJustNow == ret /\ completions = 1

RecoveredCommandAndPayload ==
    /\ get_command(resp) = command_id
    /\ BufSlice(resp.data, 4, 4 + Len(write_data)) = write_data

\* C1 (as amended): for every command id, write flag and payload of at most
\* 1016 bytes (length + 3 <= 1019, the parser's limit on the remaining count),
\* feeding create_packet_bytes(cmd, write, data) byte by byte to a reset
\* Response returns false on every byte but the last and true on the last,
\* and then get_command() = cmd and data[4 .. 4+len) = the payload.
C1_RoundTrip ==
    (FedAlone /\ Len(write_data) + 3 <= MaxPayloadSize) =>
        /\ (pos < Len(wire) => NoCompletionYet)
        /\ (pos = Len(wire) => CompletedJustNow /\ RecoveredCommandAndPayload)

\* C1 as stated: the same for every payload whose length + 1 fits the 10-bit
\* length field and whose frame fits the 1024-byte buffer.
C1_RoundTripAnyEncodableLength ==
    (FedAlone /\ Len(write_data) + 1 < 2^10 /\ 6 + Len(write_data) <= BufferSize) =>
        /\ (pos < Len(wire) => NoCompletionYet)
        /\ (pos = Len(wire) => CompletedJustNow /\ RecoveredCommandAndPayload)

C1_Witness ==
    /\ FedAlone
    /\ Len(write_data) = MaxPayloadSize - 3
    /\ pos = Len(wire)
    /\ CompletedJustNow
    /\ RecoveredCommandAndPayload

\* C2 (as amended): noise bytes none of which is 0xAA, followed by one valid
\* frame of at most 1016 payload bytes, fed to a reset Response: parse_data
\* returns true exactly once, on the last byte of the frame.
C2_Resync ==
    (/\ op = "parse" /\ pc = "feed" /\ scen.kind = "noise"
     /\ StartMarker \notin Range(scen.noise)
     /\ Len(write_data) + 3 <= MaxPayloadSize) =>
        /\ (pos < Len(wire) => NoCompletionYet)
        /\ (pos = Len(wire) => CompletedJustNow)

\* C2 as stated: the same for arbitrary noise bytes, 0xAA included.
C2_ResyncAnyNoise ==
    (/\ op = "parse" /\ pc = "feed" /\ scen.kind = "noise"
     /\ Len(write_data) + 3 <= MaxPayloadSize) =>
        /\ (pos < Len(wire) => NoCompletionYet)
        /\ (pos = Len(wire) => CompletedJustNow)

C2_Witness ==
    /\ op = "parse" /\ pc = "feed" /\ scen.kind = "noise"
    /\ Len(scen.noise) >= 2
    /\ StartMarker \notin Range(scen.noise)
    /\ pos = Len(wire)
    /\ CompletedJustNow

\* the inverted bit is in the 10-bit length field (bits 6..15 of the flags)
FlipInLengthField(k) == k \div 8 = 2 \/ (k \div 8 = 1 /\ k % 8 >= 6)

FlipInStartMarker(k) == k \div 8 = 0

FlipInHeader(k) == FlipInStartMarker(k) \/ FlipInLengthField(k)

\* where the frame the altered length field announces ends: 3 header bytes
\* and L' + 2 more
RecutEnd == 3 + DecodeLength(wire[2], wire[3]) + 2

\* the only completion so far, if any, is the excepted one: the altered
\* length field re-cuts the frame and the checksum of the re-cut frame matches
OnlyRecutCollision ==
    /\ FlipInLengthField(scen.flip)
    /\ completions <= 1
    /\ (pos < RecutEnd => NoCompletionYet)
    /\ (pos > RecutEnd => ~ret)

\* C7 (as amended): one bit of a valid frame inverted and the altered frame
\* fed to a reset Response: parse_data never returns true (the checksum
\* collision of a frame re-cut by an altered length field excepted), provided
\* that, when the bit is in the start marker or the length field, no byte of
\* the frame after its start marker is 0xAA.
C7_BitFlipRejected ==
    (/\ op = "parse" /\ pc = "feed" /\ scen.kind = "flip"
     /\ (FlipInHeader(scen.flip) => StartMarker \notin Range(Tail(packet_bytes)))) =>
        (NoCompletionYet \/ OnlyRecutCollision)

\* C7 as stated: the same for every frame and every bit.
C7_AnyBitFlipRejected ==
    (op = "parse" /\ pc = "feed" /\ scen.kind = "flip") =>
        (NoCompletionYet \/ OnlyRecutCollision)

C7_Witness ==
    /\ op = "parse" /\ pc = "feed" /\ scen.kind = "flip"
    /\ scen.flip \div 8 >= 4
    /\ Len(write_data) > 0
    /\ pos = Len(wire)
    /\ resp.parse_state = "StartByte"
    /\ resp.size = Len(wire)
    /\ NoCompletionYet

\* the next byte to feed is the second flag byte, and the length field the
\* two flag bytes decode to gives a remaining count L + 2 > 1019
GuardTrips ==
    /\ op = "parse" /\ pc = "feed" /\ pos < Len(wire)
    /\ resp.parse_state = "PayloadSize1"
    /\ DecodeLength(BufGet(resp.data, 1), wire[pos + 1]) + 2 > MaxPayloadSize

\* the parser is where a tripped guard left it
Tripped ==
    /\ op = "parse" /\ pc = "feed" /\ pos < Len(wire)
    /\ resp.parse_state = "StartByte"
    /\ resp.payload_size > MaxPayloadSize

\* C8: when the flag bytes decode to L with L + 2 > 1019, parse_data on the
\* second flag byte returns false and leaves the parser in the start-byte
\* state; the next byte is only examined as a start marker (dropped, or
\* stored at offset 0), never stored as payload, and signals no completion.
C8_LengthGuard ==
    [][ /\ (GuardTrips /\ pos' = pos + 1) =>
             /\ resp'.parse_state = "StartByte"
             /\ ~ret'
             /\ resp'.size = 3
        /\ (Tripped /\ pos' = pos + 1) =>
             /\ ~ret'
             /\ resp'.size = resp.size
             /\ IF wire[pos + 1] = StartMarker
                THEN /\ resp'.parse_state = "PayloadSize0"
                     /\ resp'.data = BufSet(resp.data, 0, StartMarker)
                ELSE resp' = resp ]_vars

C8_Witness ==
    /\ op = "parse" /\ pc = "feed" /\ scen.kind = "crafted"
    /\ pos = 4
    /\ resp.payload_size > MaxPayloadSize
    /\ resp.parse_state = "PayloadSize0"
    /\ NoCompletionYet

\* C9 (as amended): create_packet_bytes(1, false, []) is the six bytes
\* AA 40 00 01 51 8F, i.e. create_crc over AA 40 00 01 is 0x8F51.
C9_RegressionVector ==
    (op = "parse" /\ pc = "feed" /\ command_id = 1 /\ ~write /\ write_data = << >>) =>
        /\ packet_bytes = << 170, 64, 0, 1, 81, 143 >>
        /\ create_crc(<< 170, 64, 0, 1 >>) = 36689

\* C9 as stated: the six bytes are AA 40 00 01 59 37, the crc 0x3759.
C9_RegressionVectorAsStated ==
    (op = "parse" /\ pc = "feed" /\ command_id = 1 /\ ~write /\ write_data = << >>) =>
        /\ packet_bytes = << 170, 64, 0, 1, 89, 55 >>
        /\ create_crc(<< 170, 64, 0, 1 >>) = 14169

C9_Witness ==
    /\ op = "parse" /\ pc = "feed" /\ command_id = 1 /\ ~write /\ write_data = << >>
    /\ Len(packet_bytes) = 6
    /\ scen.kind = "noise" /\ scen.noise = << >>
    /\ pos = Len(wire)

-----------------------------------------------------------------------------
(* Claims about the dispatcher, checked under Spec *)

Managed == op \in {"handle_managed_cmd", "cmd_read_u32"}

\* a frame the parser completes and recv_packet accepts for this command
IsMatching(f) == f.good /\ f.cmd = command_id

\* nothing the device sends is a checksum-valid frame for the requested id
NoMatchOnLine == \A i \in 1..Len(scen.frames) : ~IsMatching(scen.frames[i])

\* C3: with command_retries = R >= 0, writes that succeed, reads that never
\* fail and never deliver a matching checksum-valid frame, handle_managed_cmd
\* makes exactly R transport writes, each of the full request packet, and
\* returns CommandRetriesExhausted; and it never returns
\* CommandRetriesExhausted after fewer or more than R writes.
C3_RetryAccounting ==
    (Managed /\ command_retries >= 0) =>
        /\ hist.written \subseteq {packet_bytes}
        /\ (result = "CommandRetriesExhausted" => hist.nwrites = command_retries)
        /\ (pc = "done" /\ NoMatchOnLine /\ hist.failed = "none" =>
                /\ result = "CommandRetriesExhausted"
                /\ hist.nwrites = command_retries)

C3_Witness ==
    /\ Managed
    /\ command_retries >= 2
    /\ wire = << >>
    /\ pc = "done"
    /\ result = "CommandRetriesExhausted"
    /\ hist.nwrites = command_retries
    /\ hist.written = {packet_bytes}

\* the little-endian value of the first four payload bytes of a frame
PayloadU32(f) ==
    LET b(i) == IF i <= Len(f.data) THEN f.data[i] ELSE 0
    IN  b(1) + b(2) * 2^8 + b(3) * 2^16 + b(4) * 2^24

\* the device sent a valid frame for another id and then a valid frame for
\* the requested id, and both were read within the first poll
TwoFramesInOnePoll ==
    /\ Len(scen.frames) = 2
    /\ scen.frames[1].good /\ scen.frames[1].cmd # command_id
    /\ IsMatching(scen.frames[2])
    /\ hist.nwrites = 1
    /\ pos = Len(wire)
    /\ completions = 2

\* C4: a checksum-valid frame for another command id followed, within one
\* poll, by a checksum-valid frame for the requested id: the managed command
\* succeeds and cmd_read_u32 returns the value decoded from the second
\* frame's payload, not anything of the first frame's payload.
C4_SecondFramePayloadReturned ==
    (op = "cmd_read_u32" /\ TwoFramesInOnePoll) =>
        /\ pc = "done"
        /\ result = "Ok"
        /\ value = PayloadU32(scen.frames[2])

\* C5: a transport write that reports success with fewer bytes than the
\* request packet makes the call return WriteError, without polling.
C5_PartialWriteIsWriteError ==
    hist.last_call = "short_write" => (pc = "done" /\ result = "WriteError")

\* C6: a failed transport write makes handle_managed_cmd return WriteError
\* with no read in that attempt and no further write; a failed transport
\* read makes it return ReadError at once; no transport call follows either,
\* however many retries remain.
C6_TransportErrorsFatal ==
    /\ (hist.failed = "write" =>
            /\ pc = "done" /\ result = "WriteError"
            /\ hist.last_call = "write"
            /\ hist.after_fail = 0)
    /\ (hist.failed = "read" =>
            /\ pc = "done" /\ result = "ReadError"
            /\ hist.last_call = "read"
            /\ hist.after_fail = 0)
    /\ (result = "WriteError" => hist.failed = "write")
    /\ (result = "ReadError" => hist.failed = "read")

C6_Witness ==
    /\ Managed
    /\ hist.failed = "read"
    /\ result = "ReadError"
    /\ attempt = 0
    /\ command_retries >= 2
    /\ pos > 0

\* C10: handle_managed_cmd returns Ok, for read and write commands alike,
\* only if the last transport call was a read (after the most recent write)
\* on which parse_data signalled a checksum-valid frame whose command id byte
\* is the requested id; and as soon as that happens it returns Ok, with no
\* further read or write.
C10_SuccessCriterion ==
    Managed =>
        /\ (result = "Ok" =>
                /\ pc = "done"
                /\ ret
                /\ CrcMatches(resp.data, resp.size)
                /\ get_command(resp) = command_id
                /\ hist.last_call = "read"
                /\ hist.matched = 1)
        /\ (hist.matched > 0 =>
                /\ pc = "done" /\ result = "Ok"
                /\ hist.after_match = 0)
        /\ (ret /\ get_command(resp) = command_id => result = "Ok")

C10_Witness ==
    /\ op = "handle_managed_cmd" /\ write
    /\ result = "Ok"
    /\ attempt = 1
    /\ completions = 2
    /\ hist.nwrites = 2

\* a checksum-valid frame for another command id completes on this read
MismatchCompletes ==
    /\ pc = "read"
    /\ pos' = pos + 1
    /\ ret'
    /\ get_command(resp') # command_id

\* C11: when a checksum-valid frame with a non-requested command id completes
\* during a poll, recv_packet does not return and no write is issued: the
\* loop test comes next, against the deadline computed at the start of that
\* poll, which nothing but the start of a poll ever changes.
C11_MismatchKeepsPolling ==
    /\ [][ MismatchCompletes =>
               /\ pc' = "poll"
               /\ result' = "none"
               /\ attempt' = attempt
               /\ hist'.nwrites = hist.nwrites
               /\ timeout_time' = timeout_time ]_vars
    /\ [][ timeout_time' # timeout_time => (pc = "recv" /\ hist.last_call \in {"write", "short_write"}) ]_vars
    /\ [][ (pc = "poll" /\ elapsed < timeout_time) => pc' = "read" ]_vars

C11_Witness ==
    /\ Managed
    /\ pc = "read"
    /\ ret
    /\ get_command(resp) = OtherId
    /\ completions = 1
    /\ hist.nwrites = 1
    /\ elapsed > 0
    /\ pos = Len(FrameBytes(Other4))

\* the device sent a frame with a wrong checksum and then a valid frame for
\* the requested id
BadThenMatch ==
    /\ Len(scen.frames) = 2
    /\ ~scen.frames[1].good
    /\ IsMatching(scen.frames[2])

\* this read delivers the last byte of that first frame, within the first poll
BadFrameEnds ==
    /\ pc = "read"
    /\ BadThenMatch
    /\ hist.nwrites = 1
    /\ pos' = pos + 1
    /\ pos' = Len(FrameBytes(scen.frames[1]))

\* C12: a complete frame whose trailing checksum does not match makes
\* handle_managed_cmd return nothing: parse_data returns false, the parser is
\* back in the start-byte state and the poll goes on; and when a
\* checksum-valid frame for the requested id follows within the same poll the
\* command returns Ok.
C12_ChecksumMismatchAbsorbed ==
    /\ [][ BadFrameEnds =>
               /\ ~ret'
               /\ resp'.parse_state = "StartByte"
               /\ pc' = "poll"
               /\ result' = "none" ]_vars
    /\ []( (Managed /\ BadThenMatch /\ hist.nwrites = 1 /\ pos = Len(wire)) =>
               (pc = "done" /\ result = "Ok") )

C12_Witness ==
    /\ Managed
    /\ BadThenMatch
    /\ hist.nwrites = 1
    /\ pos = Len(wire)
    /\ completions = 1
    /\ result = "Ok"

\* the number of attempts `0..command_retries` makes
AttemptsOf(n) == IF n < 0 THEN 0 ELSE n

Outcomes == {"Ok", "WriteError", "ReadError", "CommandRetriesExhausted"}

\* C13 (as amended): every managed command eventually returns one of its
\* outcomes; it returns CommandRetriesExhausted only after as many attempts
\* as `0..command_retries` has elements, each ended by the loop test with the
\* clock at or past the deadline, i.e. at least command_timeout ms after the
\* poll began; the number of writes never exceeds command_retries when that
\* is not negative, and is 0 when it is negative.
C13_Termination ==
    /\ (Managed => <>(pc = "done" /\ result \in Outcomes))
    /\ []( Managed =>
              /\ hist.nwrites <= AttemptsOf(command_retries)
              /\ (result = "CommandRetriesExhausted" =>
                      /\ attempt = AttemptsOf(command_retries)
                      /\ hist.nwrites = attempt
                      /\ hist.failed = "none"
                      /\ hist.matched = 0) )
    /\ [][ (Managed /\ attempt' # attempt) =>
               /\ attempt' = attempt + 1
               /\ elapsed >= timeout_time
               /\ timeout_time >= command_timeout ]_vars

\* C13 as stated: the same, with the number of writes never above
\* command_retries whatever its sign.
C13_TerminationAsStated ==
    /\ (Managed => <>(pc = "done" /\ result \in Outcomes))
    /\ []( (Managed /\ pc = "done") => hist.nwrites <= command_retries )

C13_Witness ==
    /\ Managed
    /\ pc = "done"
    /\ result = "CommandRetriesExhausted"
    /\ command_retries >= 2
    /\ command_timeout > 0
    /\ attempt = command_retries
    /\ pos = Len(wire)
    /\ completions = 1

\* C14: engage_lwnx_mode makes exactly one transport write, of the packet
\* for command id 0 with write = false and no payload, and no read: what is
\* pending on the line stays there; it returns Ok when the write callback
\* took the packet and WriteError when the callback failed.
C14_EngageWritesOnce ==
    op = "engage_lwnx_mode" =>
        /\ pos = 0
        /\ hist.last_call # "read"
        /\ hist.written \subseteq {create_packet_bytes(0, FALSE, << >>)}
        /\ hist.nwrites = (IF pc = "done" THEN 1 ELSE 0)
        /\ result \in {"none", "Ok", "WriteError"}
        /\ (pc = "done" /\ hist.last_call = "write" /\ hist.failed = "none" => result = "Ok")
        /\ (pc = "done" /\ hist.failed = "write" => result = "WriteError")
        /\ (result = "WriteError" => hist.failed = "write")

C14_Witness ==
    /\ op = "engage_lwnx_mode"
    /\ pc = "done"
    /\ result = "Ok"
    /\ hist.nwrites = 1
    /\ hist.written = {<< 170, 64, 0, 0, 112, 159 >>}
    /\ Len(wire) > 0
    /\ pos = 0

\* the bytes of w before its first zero byte; none when w has no zero byte
BeforeFirstZero(w) ==
    LET zeros == { i \in 1..Len(w) : w[i] = 0 }
    IN  IF zeros = {} THEN << >>
        ELSE SubSeq(w, 1, (CHOOSE i \in zeros : \A j \in zeros : i <= j) - 1)

\* C15: after a successful managed command cmd_read_string returns the bytes
\* of the window data[4..20] that precede its first zero byte, and the empty
\* string when the window has no zero byte.
C15_StringDecode ==
    (op = "cmd_read_string" /\ hist.matched > 0) =>
        /\ pc = "done"
        /\ result = "Ok"
        /\ value = BeforeFirstZero(BufSlice(resp.data, 4, 20))

-----------------------------------------------------------------------------
(* Further claims about the parser, checked under SpecParser *)

\* the stored frame's trailing two bytes, read little-endian
TrailingLe(r) == BufGet(r.data, r.size - 2) + U8 * BufGet(r.data, r.size - 1)

\* C16: in the payload state, on the byte that brings the remaining count to
\* 0, the parser returns to the start-byte state and parse_data returns true
\* exactly when create_crc over the stored bytes but the last 2 equals the
\* last 2 read little-endian; on every other byte parse_data returns false.
C16_FrameCompletion ==
    [][ (op = "parse" /\ pc = "feed" /\ pos' = pos + 1) =>
            IF resp.parse_state = "Payload" /\ resp.payload_size - 1 = 0
            THEN /\ resp'.parse_state = "StartByte"
                 /\ resp'.payload_size = 0
                 /\ ret' = (create_crc(BufSlice(resp'.data, 0, resp'.size - 2)) = TrailingLe(resp'))
            ELSE ~ret' ]_vars

C16_Witness ==
    /\ op = "parse" /\ pc = "feed" /\ scen.kind = "flip"
    /\ scen.flip \div 8 = 3
    /\ pos = Len(wire)
    /\ resp.parse_state = "StartByte"
    /\ resp.payload_size = 0
    /\ resp.size = Len(wire)
    /\ ~ret
    /\ TrailingLe(resp) # create_crc(BufSlice(resp.data, 0, resp.size - 2))

\* C19: whatever bytes are fed and wherever reset() is called, no store
\* leaves the 1024-byte buffer: in the payload state the next store index
\* (size) is below 1024, the remaining count is in 1..1019 and size plus
\* remaining count is at most 1022.
C19_BufferBounds ==
    op = "parse" =>
        /\ ~panicked
        /\ Len(resp.data) <= BufferSize
        /\ (resp.parse_state = "Payload" =>
                /\ resp.size >= 3
                /\ resp.size < BufferSize
                /\ resp.payload_size >= 1
                /\ resp.payload_size <= MaxPayloadSize
                /\ resp.size + resp.payload_size <= BufferSize - 2)

C19_Witness ==
    /\ op = "parse" /\ pc = "feed" /\ scen.kind = "crafted"
    /\ attempt > 0
    /\ pos > 3
    /\ resp.parse_state = "Payload"
    /\ resp.size + resp.payload_size = BufferSize - 2
    /\ resp.payload_size < MaxPayloadSize

\* C20: every frame on which parse_data returns true has a stored size of at
\* least 6, so that data[3] is a command id byte and not a checksum byte; a
\* frame whose length field decodes to 0 is never reported complete.
C20_CompleteFrameHasCommandByte ==
    (op = "parse" /\ pc = "feed" /\ ret) =>
        /\ resp.size >= 6
        /\ DecodeLength(BufGet(resp.data, 1), BufGet(resp.data, 2)) >= 1

-----------------------------------------------------------------------------
(* Further claims about the dispatcher, checked under Spec *)

\* C17: each poll starts, after the write of its attempt, from a reset
\* parser (start-byte state, size 0, remaining count 0); no byte of a frame
\* being parsed was stored before the current poll began, and a frame that
\* completes consists of the bytes read last, all within the current poll.
C17_PollStartsReset ==
    /\ [][ pc = "recv" =>
               /\ hist.last_call \in {"write", "short_write"}
               /\ resp'.parse_state = "StartByte"
               /\ resp'.size = 0
               /\ resp'.payload_size = 0 ]_vars
    /\ [](hist.stale = 0)
    /\ []( (Managed /\ ret) =>
               BufSlice(resp.data, 0, resp.size) = SubSeq(wire, pos - resp.size + 1, pos) )

C17_Witness ==
    /\ Managed
    /\ scen.frames = << Match4 >>
    /\ hist.nwrites = 2
    /\ attempt = 1
    /\ pos = Len(wire)
    /\ completions = 0
    /\ resp.parse_state = "StartByte"
    /\ resp.size = 0

\* C18 (as amended): a read is issued only while elapsed() is below the
\* deadline, which is the command timeout added to the elapsed() reading
\* taken when the poll began; a poll times out only with elapsed() at or past
\* that deadline, hence at least the timeout after the poll began, and with
\* no matching frame; with command_timeout = 0 no read is issued and every
\* attempt times out, a matching frame on the line or not.
C18_PollDeadline ==
    /\ []( pc = "read" => elapsed < timeout_time )
    /\ []( pc \in {"poll", "read"} => timeout_time >= command_timeout )
    /\ [][ (pc = "poll" /\ pc' = "loop") =>
               /\ elapsed >= timeout_time
               /\ elapsed >= command_timeout
               /\ hist.matched = 0 ]_vars
    /\ []( command_timeout = 0 =>
               /\ pc # "read"
               /\ hist.last_call # "read"
               /\ pos = 0
               /\ result # "Ok" \/ op = "engage_lwnx_mode"
               /\ (pc = "done" /\ hist.failed = "none" /\ op # "engage_lwnx_mode" =>
                       /\ result = "CommandRetriesExhausted"
                       /\ attempt = AttemptsOf(command_retries)) )

\* C18 as stated: a read is issued only while the time elapsed since the
\* poll began is strictly less than the command timeout.
C18_ReadOnlyBeforeTimeout ==
    pc = "read" => elapsed < command_timeout

C18_Witness ==
    /\ Managed
    /\ command_timeout = 0
    /\ command_retries >= 2
    /\ Len(scen.frames) = 1 /\ IsMatching(scen.frames[1])
    /\ pc = "done"
    /\ result = "CommandRetriesExhausted"
    /\ hist.nwrites = command_retries
    /\ pos = 0

\* handle_managed_cmd returned Ok and the typed read then panicked on it
PanickedAfterOk ==
    /\ op = "cmd_read_string"
    /\ result = "panic"
    /\ panicked
    /\ hist.matched = 1
    /\ ret /\ get_command(resp) = command_id

\* C21: whatever LwnxError the platform callbacks hand back, the only results
\* handle_managed_cmd returns, and with it every typed read, are Ok,
\* WriteError, ReadError and CommandRetriesExhausted (Outcomes): a failed
\* write gives WriteError, a failed read ReadError, and a poll that timed out
\* gives a further attempt or CommandRetriesExhausted, never PacketTimeout,
\* DeviceError or DeviceClosed.
C21_ResultsReturned ==
    op # "engage_lwnx_mode" =>
        /\ result \in Outcomes \cup {"none", "panic"}
        /\ (result = "panic" => PanickedAfterOk)
        /\ (pc = "done" => result # "none")
        /\ (result = "none" => pc # "done")
        /\ (hist.failed = "write" => result = "WriteError")
        /\ (hist.failed = "read" => result = "ReadError")
        /\ (pc = "loop" /\ attempt > 0 => hist.failed = "none" /\ elapsed >= timeout_time)

C21_Witness ==
    /\ Managed
    /\ pc = "done"
    /\ result = "CommandRetriesExhausted"
    /\ command_retries >= 2
    /\ command_timeout > 0
    /\ attempt = command_retries
    /\ hist.last_call = "read"
    /\ pos > 0

\* the Response of a typed read that has received the frame f and nothing
\* before it
ReceivedAlone(f) == [NewResponse EXCEPT !.data = f, !.size = Len(f)]

\* the frame the successful read ended with: data[0 .. size)
MatchingFrame == BufSlice(resp.data, 0, resp.size)

\* C22: the value a successful typed read returns is the one the matching
\* frame alone gives, whatever frames were received before it in that
\* command, also when its payload is shorter than the decoded width; so two
\* runs that end with the same matching frame return the same value.
C22_ValueFromMatchingFrameOnly ==
    (op \in {"cmd_read_u32", "cmd_read_string"} /\ pc = "done" /\ result = "Ok") =>
        value = Decode(ReceivedAlone(MatchingFrame))

=============================================================================
